---- MODULE Spec2Model ----
(***************************************************************************)
(* Retryable HTTP client (package retryable): the Do retry loop, the       *)
(* request replay buffer, the response capture and validator, and the      *)
(* post-failure delay.  One Do call is modelled step by step: its blocking *)
(* points (the two sleeps and the transport exchange) are separate states  *)
(* so that the caller's cancellation and the total retry timeout can fire  *)
(* while the call is suspended.                                            *)
(***************************************************************************)
EXTENDS Integers, Sequences, FiniteSets, TLC

VARIABLES
    client,     \* the Client fields (never written by Do)
    request,    \* the *http.Request handed to Do (Nil or a record)
    ctxErr,     \* ctx.Err() of the bounded context: "none", "Canceled", "DeadlineExceeded"
    pc,         \* position of the Do call
    attempt,    \* loop variable of Do
    response,   \* named result `response` of Do
    err,        \* named result `err` of Do
    sends,      \* history: calls of client.Client.Do made so far
    sleeps,     \* history: calls of the delay provider made so far
    lastSend,   \* history: how the last transport call ended and the length of
                \* the body it delivered
    endedAt,    \* history: pc at which the bounded context ended ("" while live)
    deadAtSend, \* the bounded context had ended when the transport call began
    allRetry,   \* history: every transport call so far returned a readable
                \* response whose status is in client.RetryStatus
    arg,        \* the argument of the helper under test (Nil in a Do call)
    fault,      \* history: the value of the panic raised inside Do (Nil if none)
    call,       \* history: the last call of the delay provider (Nil if none)
    first,      \* history: the outcome of an earlier Do call on this request (Nil if none)
    log,        \* history: what the transport returned to this call, in order
                \* (kept for concurrent calls only)
    events,     \* history: the events of this Do call, in order
    result,     \* history: what sendRequest returned last (in the specification
                \* of a helper: what the helper returned); Nil if nothing yet
    other       \* a second Do call on the same client whose goroutine is not
                \* running: its request, locals and history (Nil if none)

vars == <<client, request, ctxErr, pc, attempt, response, err, sends, sleeps,
          lastSend, endedAt, deadAtSend, allRetry, arg, fault, call,
          first, log, events, result, other>>

----------------------------------------------------------------------------
(* Bounds of the model *)

MaxRetryCount == 2      \* largest client.RetryCount explored
MaxBody == 2            \* longest request / response body explored
MaxSize == 1            \* largest non-zero size ceiling explored

(* Program constants *)

StatusOK == 200
StatusBadRequest == 400
StatusServiceUnavailable == 503

\* the status codes explored: one below 400 and one at least 400, each of
\* which the configured retryable set may or may not hold
Codes == {StatusOK, StatusServiceUnavailable}

----------------------------------------------------------------------------
(* Values *)

Nil == [nil |-> TRUE]

\* error values: kind is the sentinel the error wraps (ErrRetryable or
\* ErrNonRetryable), msg the text, cause the wrapped cause, n the number printed
Error(kind, msg, cause, n) == [kind |-> kind, msg |-> msg, cause |-> cause, n |-> n]
NoErr == Error("nil", "", "none", 0)
ErrRetryable == "ErrRetryable"
ErrNonRetryable == "ErrNonRetryable"

Min(a, b) == IF a < b THEN a ELSE b

\* the content of a body of length L: byte i is i
Content(L) == [i \in 1..L |-> i]

\* a body stream: its content, whether it ends in a read error instead of EOF
\* (MockReader), how many times it was closed, and whether it is the original
\* stream or an in-memory reader
Stream(L, fails) == [kind |-> "stream", data |-> Content(L), fails |-> fails, closed |-> 0]
Buffer(bytes) == [kind |-> "buffer", data |-> bytes, fails |-> FALSE, closed |-> 0]

\* mutant of Captured: the reader is not limited
CapturedUnlimited(L, N) == L

\* io.ReadAll over the (possibly limited) reader: number of bytes captured
Captured(L, N) == IF N > 0 THEN Min(L, N) ELSE L
\* io.ReadAll fails when the stream's error is met before the limit is
ReadFails(body, N) == body.fails /\ (N = 0 \/ Len(body.data) < N)

----------------------------------------------------------------------------
(* Request replay buffer *)

\* a request: Body is a stream or Nil, GetBody is "nil" (unset), "caller"
\* (supplied by the caller) or "buffer" (installed by prepareRequestBody over
\* `buffer`), closes counts the Close calls on the original body stream, URL
\* is "set" or "nil"
Request(body, getBody) ==
    [Body |-> body, GetBody |-> getBody, ContentLength |-> 0, buffer |-> <<>>,
     closes |-> 0, URL |-> "set"]

\* new(http.Request): a request the transport cannot send
NoURL(req) == [req EXCEPT !.URL = "nil"]

\* mutant of prepareRequestBody: a GetBody the caller supplied is not respected
prepareRequestBodyIgnoresGetBody(req, N) ==
    IF req = Nil
    THEN [request |-> req, err |-> Error(ErrNonRetryable, "invalid request", "none", 0)]
    ELSE IF req.Body = Nil
    THEN [request |-> req, err |-> NoErr]
    ELSE IF ReadFails(req.Body, N)
    THEN [request |-> req,
          err |-> Error(ErrNonRetryable, "unable to read request body", "ErrUnexpectedEOF", 0)]
    ELSE
      LET L == Len(req.Body.data)
          buffer == SubSeq(req.Body.data, 1, Captured(L, N))
          \* the deferred replacement runs on every path below
          replaced == [req EXCEPT !.Body = Buffer(buffer), !.GetBody = "buffer",
                                  !.ContentLength = Len(buffer), !.buffer = buffer,
                                  !.closes = @ + 1]
          size == (L - Len(buffer)) + N
      IN  IF req.Body.fails
          THEN [request |-> replaced,
                err |-> Error(ErrNonRetryable, "unable to discard request body", "ErrUnexpectedEOF", 0)]
          ELSE IF N > 0 /\ size > N
          THEN [request |-> replaced,
                err |-> Error(ErrNonRetryable, "request size exceeded", "none", size)]
          ELSE [request |-> replaced, err |-> NoErr]

\* prepareRequestBody: the body is captured in memory, the original stream
\* closed and replaced, GetBody installed over the captured bytes
prepareRequestBody(req, N) ==
    IF req = Nil
    THEN [request |-> req, err |-> Error(ErrNonRetryable, "invalid request", "none", 0)]
    ELSE IF req.Body = Nil \/ req.GetBody # "nil"
    THEN [request |-> req, err |-> NoErr]
    ELSE IF ReadFails(req.Body, N)
    THEN [request |-> req,
          err |-> Error(ErrNonRetryable, "unable to read request body", "ErrUnexpectedEOF", 0)]
    ELSE
      LET L == Len(req.Body.data)
          buffer == SubSeq(req.Body.data, 1, Captured(L, N))
          \* the deferred replacement runs on every path below
          replaced == [req EXCEPT !.Body = Buffer(buffer), !.GetBody = "buffer",
                                  !.ContentLength = Len(buffer), !.buffer = buffer,
                                  !.closes = @ + 1]
          size == (L - Len(buffer)) + N
      IN  IF req.Body.fails
          THEN [request |-> replaced,
                err |-> Error(ErrNonRetryable, "unable to discard request body", "ErrUnexpectedEOF", 0)]
          ELSE IF N > 0 /\ size > N
          THEN [request |-> replaced,
                err |-> Error(ErrNonRetryable, "request size exceeded", "none", size)]
          ELSE [request |-> replaced, err |-> NoErr]

\* mutant of resetRequestBody: the body is not regenerated from the buffer
resetRequestBodyKeepsReader(req, ok) ==
    IF req = Nil \/ req.GetBody = "nil"
    THEN [request |-> req, err |-> NoErr]
    ELSE IF req.GetBody = "buffer"
    THEN [request |-> req, err |-> NoErr]
    ELSE IF ok
    THEN [request |-> [req EXCEPT !.Body = Buffer(<<>>)], err |-> NoErr]
    ELSE [request |-> [req EXCEPT !.Body = Nil],
          err |-> Error(ErrNonRetryable, "unable to reset request body", "EOF", 0)]

\* ok: whether a caller-supplied GetBody returns a reader (TRUE) or an error
resetRequestBody(req, ok) ==
    IF req = Nil \/ req.GetBody = "nil"
    THEN [request |-> req, err |-> NoErr]
    ELSE IF req.GetBody = "buffer"
    THEN [request |-> [req EXCEPT !.Body = Buffer(req.buffer)], err |-> NoErr]
    ELSE IF ok
    THEN [request |-> [req EXCEPT !.Body = Buffer(<<>>)], err |-> NoErr]
    ELSE [request |-> [req EXCEPT !.Body = Nil],
          err |-> Error(ErrNonRetryable, "unable to reset request body", "EOF", 0)]

\* the request after a consumer (the transport) read any number of bytes of
\* its current body reader
Consumed(req) ==
    IF req = Nil \/ req.Body = Nil
    THEN {req}
    ELSE {[req EXCEPT !.Body.data = SubSeq(@, k + 1, Len(@))] : k \in 0..Len(req.Body.data)}

----------------------------------------------------------------------------
(* Response capture and validator *)

\* a response as the transport returns it; RetryAfter is the Retry-After
\* header in seconds, 0 when the header is absent
NoHeader == [form |-> "absent", value |-> 0]
NilHeader == [form |-> "nil", value |-> 0]
EmptyHeader == [form |-> "empty", value |-> 0]
Seconds(n) == [form |-> "seconds", value |-> n]
HTTPDate(n) == [form |-> "date", value |-> n]
Unparseable == [form |-> "other", value |-> 0]

Response(status, body, retryAfter) ==
    [StatusCode |-> status, Body |-> body,
     ContentLength |-> IF body = Nil THEN 0 ELSE Len(body.data),
     RetryAfter |-> retryAfter]

\* mutant of validateResponse: the >= 400 rule ahead of the retryable set
validateResponseFatalFirst(status, drained, N, RetryStatus) ==
    IF status >= StatusBadRequest
    THEN Error(ErrNonRetryable, "invalid status code", "none", status)
    ELSE IF status \in RetryStatus
    THEN Error(ErrRetryable, "invalid status code", "none", status)
    ELSE IF N > 0 /\ drained + N > N
    THEN Error(ErrNonRetryable, "response size exceeded", "none", drained + N)
    ELSE NoErr

\* mutant of validateResponse: the size ceiling ahead of the status rules
validateResponseSizeFirst(status, drained, N, RetryStatus) ==
    IF N > 0 /\ drained + N > N
    THEN Error(ErrNonRetryable, "response size exceeded", "none", drained + N)
    ELSE IF status \in RetryStatus
    THEN Error(ErrRetryable, "invalid status code", "none", status)
    ELSE IF status >= StatusBadRequest
    THEN Error(ErrNonRetryable, "invalid status code", "none", status)
    ELSE NoErr

\* mutant of validateResponse: the ceiling is not added to the drained count
validateResponseDrainedOnly(status, drained, N, RetryStatus) ==
    IF status \in RetryStatus
    THEN Error(ErrRetryable, "invalid status code", "none", status)
    ELSE IF status >= StatusBadRequest
    THEN Error(ErrNonRetryable, "invalid status code", "none", status)
    ELSE IF N > 0 /\ drained > N
    THEN Error(ErrNonRetryable, "response size exceeded", "none", drained)
    ELSE NoErr

\* the checks of prepareResponseBody that follow the draining of the body:
\* drained is what io.Copy counted beyond the captured bytes
validateResponse(status, drained, N, RetryStatus) ==
    LET size == drained + N
    IN  IF status \in RetryStatus
        THEN Error(ErrRetryable, "invalid status code", "none", status)
        ELSE IF status >= StatusBadRequest
        THEN Error(ErrNonRetryable, "invalid status code", "none", status)
        ELSE IF N > 0 /\ size > N
        THEN Error(ErrNonRetryable, "response size exceeded", "none", size)
        ELSE NoErr

prepareResponseBody(resp, N, RetryStatus) ==
    IF ReadFails(resp.Body, N)
    THEN \* returns before the replacement is deferred: the body stays the
         \* original stream, which the first deferred call closes
         [response |-> [resp EXCEPT !.Body.closed = @ + 1],
          err |-> Error(ErrRetryable, "unable to read response body", "ErrUnexpectedEOF", 0)]
    ELSE
      LET L == Len(resp.Body.data)
          buffer == SubSeq(resp.Body.data, 1, Captured(L, N))
          replaced == [resp EXCEPT !.ContentLength = Len(buffer), !.Body = Buffer(buffer)]
      IN  IF resp.Body.fails
          THEN [response |-> replaced,
                err |-> Error(ErrRetryable, "unable to discard response body", "ErrUnexpectedEOF", 0)]
          ELSE [response |-> replaced,
                err |-> validateResponse(resp.StatusCode, L - Len(buffer), N, RetryStatus)]

\* what client.Client.Do handed back: a response (or Nil) and the cause of its
\* error ("none" when it returned no error)
Returned(resp, cause) == [resp |-> resp, cause |-> cause]

\* mutant of sendRequest: only a cancellation is taken for the context ending
sendRequestCanceledOnly(t, cl) ==
    IF t.cause = "Canceled"
    THEN [response |-> t.resp, err |-> Error(ErrNonRetryable, "", t.cause, 0)]
    ELSE IF t.cause # "none"
    THEN [response |-> t.resp, err |-> Error(ErrRetryable, "unable to send request", t.cause, 0)]
    ELSE IF t.resp = Nil \/ t.resp.Body = Nil
    THEN [response |-> t.resp, err |-> Error(ErrRetryable, "invalid response", "none", 0)]
    ELSE prepareResponseBody(t.resp, cl.ResponseSize, cl.RetryStatus)

\* mutant of sendRequest: the context check left out
sendRequestNoContextCheck(t, cl) ==
    IF t.cause # "none"
    THEN [response |-> t.resp, err |-> Error(ErrRetryable, "unable to send request", t.cause, 0)]
    ELSE IF t.resp = Nil \/ t.resp.Body = Nil
    THEN [response |-> t.resp, err |-> Error(ErrRetryable, "invalid response", "none", 0)]
    ELSE prepareResponseBody(t.resp, cl.ResponseSize, cl.RetryStatus)

\* mutant of sendRequest: a transport error that is no context error is fatal
sendRequestSendErrorFatal(t, cl) ==
    IF t.cause \in {"Canceled", "DeadlineExceeded"}
    THEN [response |-> t.resp, err |-> Error(ErrNonRetryable, "", t.cause, 0)]
    ELSE IF t.cause # "none"
    THEN [response |-> t.resp, err |-> Error(ErrNonRetryable, "unable to send request", t.cause, 0)]
    ELSE IF t.resp = Nil \/ t.resp.Body = Nil
    THEN [response |-> t.resp, err |-> Error(ErrRetryable, "invalid response", "none", 0)]
    ELSE prepareResponseBody(t.resp, cl.ResponseSize, cl.RetryStatus)

\* the part of sendRequest that follows the transport call
sendRequest(t, cl) ==
    IF t.cause \in {"Canceled", "DeadlineExceeded"}
    THEN [response |-> t.resp, err |-> Error(ErrNonRetryable, "", t.cause, 0)]
    ELSE IF t.cause # "none"
    THEN [response |-> t.resp, err |-> Error(ErrRetryable, "unable to send request", t.cause, 0)]
    ELSE IF t.resp = Nil \/ t.resp.Body = Nil
    THEN [response |-> t.resp, err |-> Error(ErrRetryable, "invalid response", "none", 0)]
    ELSE prepareResponseBody(t.resp, cl.ResponseSize, cl.RetryStatus)

----------------------------------------------------------------------------
(* Post-failure delay *)

\* time.Duration is a signed integer DurationBits wide counting ticks, and
\* time.Second is Second ticks: the program's 64 bits and 10^9 nanoseconds,
\* scaled down so that the products of the model fit the checker's integers
DurationBits == 6
Second == 4
MaxDuration == 2 ^ (DurationBits - 1) - 1
MinDuration == 0 - 2 ^ (DurationBits - 1)

\* the value a signed DurationBits-wide integer holds after an arithmetic
\* result x: Go's integer multiplication wraps around
WrapDuration(x) ==
    LET m == 2 ^ DurationBits
        r == x % m
    IN  IF r > MaxDuration THEN r - m ELSE r

\* time.Until (Time.Sub): a difference outside the Duration range is
\* reported as the largest or the smallest Duration
SaturateDuration(x) ==
    IF x > MaxDuration THEN MaxDuration
    ELSE IF x < MinDuration THEN MinDuration ELSE x

\* parseRetryDelay: zero without response, header map or header value;
\* strconv.ParseInt's integer times time.Second, in Duration arithmetic;
\* else time.Until the RFC1123 date; else zero
parseRetryDelay(resp) ==
    IF resp = Nil THEN 0
    ELSE CASE resp.RetryAfter.form = "seconds" ->
                WrapDuration(resp.RetryAfter.value * Second)
           [] resp.RetryAfter.form = "date" -> SaturateDuration(resp.RetryAfter.value)
           [] OTHER -> 0

\* mutant of retrySleepCall: the backoff is used whatever the header says
retrySleepCallBackoffOnly(resp, a, cl) ==
    [fn |-> "ExponentialBackoffWithContext", duration |-> cl.RetryDelay,
     multiplier |-> IF cl.RetryMultiplier > 10 THEN cl.RetryMultiplier ELSE 10,
     jitter |-> cl.RetryJitter, attempt |-> a]

\* mutant of retrySleepCall: the configured multiplier is passed on as it is
retrySleepCallNoClamp(resp, a, cl) ==
    LET delay == parseRetryDelay(resp)
    IN  IF delay > 0
        THEN [fn |-> "RandomJitterWithContext", duration |-> delay, jitter |-> 0]
        ELSE [fn |-> "ExponentialBackoffWithContext", duration |-> cl.RetryDelay,
              multiplier |-> cl.RetryMultiplier,
              jitter |-> cl.RetryJitter, attempt |-> a]

\* the call of the delay provider applyRetryDelay makes after attempt a:
\* the function and its arguments (multiplier and jitter in tenths)
retrySleepCall(resp, a, cl) ==
    LET delay == parseRetryDelay(resp)
    IN  IF delay > 0
        THEN [fn |-> "RandomJitterWithContext", duration |-> delay, jitter |-> 0]
        ELSE [fn |-> "ExponentialBackoffWithContext", duration |-> cl.RetryDelay,
              multiplier |-> IF cl.RetryMultiplier > 10 THEN cl.RetryMultiplier ELSE 10,
              jitter |-> cl.RetryJitter, attempt |-> a]

\* the call of the delay provider applyRequestDelay makes
requestSleepCall(cl) ==
    [fn |-> "RandomJitterWithContext", duration |-> cl.RequestDelay,
     jitter |-> cl.RequestJitter]

\* the duration applyRetryDelay asks the delay provider for (its sign is all
\* the loop depends on): the Retry-After delay when positive, else the backoff
retryDelay(resp, cl) == retrySleepCall(resp, 0, cl).duration

----------------------------------------------------------------------------
(* The collaborators: delay provider and transport *)

\* how a call of the delay provider (sleep.RandomJitterWithContext,
\* sleep.ExponentialBackoffWithContext) begins, for a context state and a
\* duration d: it blocks on a positive duration while the context is live,
\* returns nil at once on a non-positive duration, returns the context's
\* error at once when the context has already ended; with an ended context and
\* a non-positive duration both the timer and the context are ready and
\* either may be reported
SleepEntry(ctx, d) ==
    IF ctx = "none"
    THEN IF d > 0 THEN {"block"} ELSE {"nil"}
    ELSE IF d > 0 THEN {"err"} ELSE {"nil", "err"}

\* the responses the transport may deliver: bodies of every length with or
\* without a Retry-After header, and a one-byte body whose stream fails
Responses ==
    {Response(s, Stream(L, FALSE), ra) :
        s \in Codes, L \in 1..MaxBody, ra \in {NoHeader, Seconds(1)}}
    \cup {Response(s, Stream(1, TRUE), NoHeader) : s \in Codes}

\* how one call of client.Client.Do may end: the returned values and, as
\* history, why.  The transport honours its context: a call begun on an ended
\* context fails with the context's error; a context that ends while the
\* exchange is in flight races with the exchange.  An error comes with a nil
\* response.  A request without URL is refused before anything else is
\* looked at.
TransportOutcomes(req, ctx, dead, cl) ==
    IF req.URL = "nil" THEN {[ret |-> Returned(Nil, "net"), why |-> "error"]} ELSE
    {[ret |-> Returned(Nil, ctx), why |-> "outer"] : x \in IF ctx # "none" THEN {1} ELSE {}}
    \cup
    (IF dead THEN {} ELSE
        {[ret |-> Returned(Nil, "DeadlineExceeded"), why |-> "attempt"] :
            x \in IF cl.RequestTimeout > 0 THEN {1} ELSE {}}
        \cup {[ret |-> Returned(Nil, "net"), why |-> "error"],
              [ret |-> Returned(Nil, "none"), why |-> "nil"],
              [ret |-> Returned(Response(StatusOK, Nil, NoHeader), "none"), why |-> "nobody"]}
        \cup {[ret |-> Returned(r, "none"), why |-> "response"] : r \in Responses})

----------------------------------------------------------------------------
(* The Do call *)

\* history record of a transport call
Sent(why, resp) ==
    [why |-> why, size |-> IF resp = Nil \/ resp.Body = Nil THEN 0 ELSE Len(resp.Body.data)]
NoSend == Sent("none", Nil)

Clients ==
    [RetryStatus : {{}, {StatusServiceUnavailable}, {StatusOK, StatusServiceUnavailable}},
     RetryCount : -1..MaxRetryCount,
     RetryDelay : {0, 1},
     RetryTimeout : {0, 1},
     RequestDelay : {0, 1},
     RequestTimeout : {0, 1},
     RequestSize : {0, MaxSize},
     ResponseSize : 0..MaxSize,
     RetryMultiplier : {20}, RetryJitter : {1}, RequestJitter : {1}]

Requests ==
    {Nil, Request(Nil, "nil"), Request(Nil, "caller"), NoURL(Request(Nil, "nil"))}
    \cup {Request(Stream(MaxBody, f), "nil") : f \in BOOLEAN}

Init ==
    /\ client \in Clients
    /\ request \in Requests
    /\ ctxErr \in {"none", "Canceled"}
    /\ pc = "idle"
    /\ attempt = 0
    /\ response = Nil
    /\ err = NoErr
    /\ sends = 0
    /\ sleeps = 0
    /\ lastSend = NoSend
    /\ endedAt = IF ctxErr = "none" THEN "" ELSE "idle"
    /\ deadAtSend = FALSE
    /\ allRetry = TRUE
    /\ arg = Nil
    /\ fault = Nil
    /\ call = Nil
    /\ first = Nil
    /\ log = <<>>
    /\ events = <<>>
    /\ result = Nil
    /\ other = Nil

\* mutant of IsRetryable: any non-nil error is retried
IsRetryableAnyError(e) == e.kind # "nil"

\* errors.Is(err, ErrRetryable)
IsRetryable(e) == e.kind = ErrRetryable

\* mutant of AfterSend: a retryable failure ends the call at once
AfterSendGivesUp(res, a, cl) == "done"

\* mutant of AfterSend: the backoff sleep also follows the last attempt
AfterSendAlwaysBacksOff(res, a, cl) ==
    IF res.err = NoErr THEN "done"
    ELSE IF ~IsRetryable(res.err) THEN "done"
    ELSE "retry_delay"

\* where Do goes after sendRequest returned res on attempt a: it returns
\* ("done"), sleeps before the next attempt ("retry_delay") or falls through
\* to the loop header ("next")
AfterSend(res, a, cl) ==
    IF res.err = NoErr THEN "done"
    ELSE IF ~IsRetryable(res.err) THEN "done"
    ELSE IF a < cl.RetryCount THEN "retry_delay"
    ELSE "next"

\* mutant of NextAttempt: the loop is not left when the attempts are used up
NextAttemptNeverReturns(a, cl) == IF a + 1 <= cl.RetryCount THEN "request_delay" ELSE "next"

\* mutant of NextAttempt: the loop condition off by one
NextAttemptOffByOne(a, cl) == IF a <= cl.RetryCount THEN "request_delay" ELSE "done"

\* the loop header after the body of attempt a ended without a return:
\* attempt++, then the loop condition
NextAttempt(a, cl) == IF a + 1 <= cl.RetryCount THEN "request_delay" ELSE "done"

\* mutant of SleepError: the provider's error is returned as it is
SleepErrorUnwrapped(ctx) == Error(ctx, "", ctx, 0)

\* the error a failed sleep is wrapped into
SleepError(ctx) == Error(ErrNonRetryable, "", ctx, 0)

\* an event of a Do call: a helper called on attempt a, or the kind of the
\* error sendRequest returned on attempt a
Event(ev, a) == [ev |-> ev, a |-> a]

\* Do up to the loop: prepareRequestBody, the bounded context, the loop header
Do ==
    /\ pc = "idle"
    /\ events' = Append(events, Event("prepare", 0))
    /\ LET p == prepareRequestBody(request, client.RequestSize)
       IN  /\ request' = p.request
           /\ response' = Nil
           /\ err' = p.err
           /\ pc' = IF p.err # NoErr THEN "done"
                    ELSE IF 0 <= client.RetryCount THEN "request_delay" ELSE "done"
    /\ UNCHANGED <<client, ctxErr, attempt, sends, sleeps, lastSend, endedAt,
                   deadAtSend, allRetry, arg, result, log, other, first, fault, call>>

applyRequestDelay ==
    /\ pc = "request_delay"
    /\ events' = Append(events, Event("request_delay", attempt))
    /\ sleeps' = sleeps + 1
    /\ \E o \in SleepEntry(ctxErr, requestSleepCall(client).duration) :
          /\ pc' = CASE o = "block" -> "request_sleep"
                     [] o = "nil" -> "reset"
                     [] o = "err" -> "done"
          /\ err' = IF o = "err" THEN SleepError(ctxErr) ELSE NoErr
    /\ call' = requestSleepCall(client)
    /\ UNCHANGED <<client, request, ctxErr, attempt, response, sends, lastSend,
                   endedAt, deadAtSend, allRetry, arg, result, log, other, first, fault>>

\* mutant of resetRequest: the send follows whatever GetBody returned
resetRequestGoesOn ==
    /\ pc = "reset"
    /\ events' = Append(events, Event("regenerate", attempt))
    /\ \E ok \in BOOLEAN :
          LET r == resetRequestBody(request, ok)
          IN  /\ request' = r.request
              /\ err' = r.err
              /\ pc' = "send"
    /\ UNCHANGED <<client, ctxErr, attempt, response, sends, sleeps, lastSend,
                   endedAt, deadAtSend, allRetry, arg, result, log, other, first, fault, call>>

\* resetRequestBody in the loop of Do, and the return on its error
resetRequest ==
    /\ pc = "reset"
    /\ events' = Append(events, Event("regenerate", attempt))
    /\ \E ok \in BOOLEAN :
          LET r == resetRequestBody(request, ok)
          IN  /\ request' = r.request
              /\ err' = r.err
              /\ pc' = IF r.err # NoErr THEN "done" ELSE "send"
    /\ UNCHANGED <<client, ctxErr, attempt, response, sends, sleeps, lastSend,
                   endedAt, deadAtSend, allRetry, arg, result, log, other, first, fault, call>>

\* sendRequest up to the call of client.Client.Do
beginSend ==
    /\ pc = "send"
    /\ pc' = "sending"
    /\ sends' = sends + 1
    /\ deadAtSend' = (ctxErr # "none")
    /\ events' = Append(events, Event("send", attempt))
    /\ UNCHANGED <<client, request, ctxErr, attempt, response, err, sleeps,
                   lastSend, endedAt, allRetry, arg, result, log, other, first, fault, call>>

\* client.Client.Do returns t; the rest of sendRequest and Do's checks follow
transportReturns(t) ==
    /\ LET res == sendRequest(t.ret, client)
           to == AfterSend(res, attempt, client)
       IN  /\ response' = res.response
           /\ err' = res.err
           /\ lastSend' = Sent(t.why, t.ret.resp)
           /\ allRetry' = (allRetry /\ t.why = "response"
                             /\ t.ret.resp.StatusCode \in client.RetryStatus
                             /\ ~t.ret.resp.Body.fails)
           /\ pc' = IF to = "next" THEN NextAttempt(attempt, client) ELSE to
           /\ attempt' = IF to = "next" THEN attempt + 1 ELSE attempt
           /\ result' = res
           /\ events' = Append(events, Event(res.err.kind, attempt))
    /\ request' \in Consumed(request)
    /\ UNCHANGED <<client, ctxErr, sends, sleeps, endedAt, deadAtSend, arg, other,
                   first, fault, call>>

endSend ==
    /\ pc = "sending"
    /\ \E t \in TransportOutcomes(request, ctxErr, deadAtSend, client) : transportReturns(t)
    /\ UNCHANGED log

applyRetryDelay ==
    /\ pc = "retry_delay"
    /\ sleeps' = sleeps + 1
    /\ \E o \in SleepEntry(ctxErr, retrySleepCall(response, attempt, client).duration) :
          /\ pc' = CASE o = "block" -> "retry_sleep"
                     [] o = "nil" -> NextAttempt(attempt, client)
                     [] o = "err" -> "done"
          /\ err' = IF o = "err" THEN SleepError(ctxErr) ELSE NoErr
          /\ attempt' = IF o = "nil" THEN attempt + 1 ELSE attempt
    /\ call' = retrySleepCall(response, attempt, client)
    /\ events' = Append(events, Event("retry_delay", attempt))
    /\ UNCHANGED <<client, request, ctxErr, response, sends, lastSend, endedAt,
                   deadAtSend, allRetry, arg, result, log, other, first, fault>>

\* the timer of a blocked sleep fires while the context is live
sleepElapsed ==
    /\ pc \in {"request_sleep", "retry_sleep"}
    /\ ctxErr = "none"
    /\ err' = NoErr
    /\ pc' = IF pc = "request_sleep" THEN "reset" ELSE NextAttempt(attempt, client)
    /\ attempt' = IF pc = "retry_sleep" THEN attempt + 1 ELSE attempt
    /\ UNCHANGED <<client, request, ctxErr, response, sends, sleeps, lastSend,
                   endedAt, deadAtSend, allRetry, arg, result, events, log, other, first, fault, call>>

\* mutant of sleepInterrupted: the error of the sleep is dropped and the loop
\* goes on
sleepInterruptedIgnored ==
    /\ pc \in {"request_sleep", "retry_sleep"}
    /\ ctxErr # "none"
    /\ err' = NoErr
    /\ pc' = IF pc = "request_sleep" THEN "reset" ELSE NextAttempt(attempt, client)
    /\ attempt' = IF pc = "retry_sleep" THEN attempt + 1 ELSE attempt
    /\ UNCHANGED <<client, request, ctxErr, response, sends, sleeps, lastSend,
                   endedAt, deadAtSend, allRetry, arg, result, events, log, other, first, fault, call>>

\* the context ended while the sleep was blocked: the sleep returns its error
sleepInterrupted ==
    /\ pc \in {"request_sleep", "retry_sleep"}
    /\ ctxErr # "none"
    /\ err' = SleepError(ctxErr)
    /\ pc' = "done"
    /\ UNCHANGED <<client, request, ctxErr, attempt, response, sends, sleeps,
                   lastSend, endedAt, deadAtSend, allRetry, arg, result, events, log, other, first, fault, call>>

\* the caller cancels the request's context during the call
cancelContext ==
    /\ pc \notin {"idle", "done"}
    /\ ctxErr = "none"
    /\ ctxErr' = "Canceled"
    /\ endedAt' = pc
    /\ UNCHANGED <<client, request, pc, attempt, response, err, sends, sleeps,
                   lastSend, deadAtSend, allRetry, arg, result, events, log, other, first, fault, call>>

\* the deadline of context.WithTimeout(ctx, client.RetryTimeout) passes
retryTimeout ==
    /\ pc \notin {"idle", "done"}
    /\ client.RetryTimeout > 0
    /\ ctxErr = "none"
    /\ ctxErr' = "DeadlineExceeded"
    /\ endedAt' = pc
    /\ UNCHANGED <<client, request, pc, attempt, response, err, sends, sleeps,
                   lastSend, deadAtSend, allRetry, arg, result, events, log, other, first, fault, call>>

\* mutant of panicHandler: the recovered fault is wrapped as retryable
panicHandlerRetryable(valid, cause, e) ==
    IF ~valid THEN [pc |-> "panicked", err |-> e]
    ELSE IF cause = Nil THEN [pc |-> "done", err |-> e]
    ELSE [pc |-> "done", err |-> Error(ErrRetryable, cause.value, "none", 0)]

\* the deferred panicHandler(err) while a panic with value cause unwinds Do:
\* with a nil pointer the panic goes on to the caller ("panicked"), otherwise
\* it is recovered and the error replaced by one carrying the fault value
panicHandler(valid, cause, e) ==
    IF ~valid THEN [pc |-> "panicked", err |-> e]
    ELSE IF cause = Nil THEN [pc |-> "done", err |-> e]
    ELSE [pc |-> "done", err |-> Error(ErrNonRetryable, cause.value, "none", 0)]

\* the values a runtime fault may carry (recover() yields a non-nil value)
Faults == {[value |-> "runtime error"]}

\* a collaborator (a body reader, GetBody, the delay provider, the transport)
\* panics while Do is in progress; Do has deferred panicHandler(&err).  A
\* panic during preparation may come before or after the body replacement
\* was deferred.
panic ==
    /\ pc \notin {"done", "panicked"}
    /\ \E v \in Faults :
          LET h == panicHandler(TRUE, v, err)
          IN  /\ fault' = v
              /\ err' = h.err
              /\ pc' = h.pc
    /\ request' \in IF pc = "idle"
                    THEN {request, prepareRequestBody(request, client.RequestSize).request}
                    ELSE {request}
    /\ UNCHANGED <<client, ctxErr, attempt, response, sends, sleeps, lastSend,
                   endedAt, deadAtSend, allRetry, arg, result, events, log, other, first, call>>

Next ==
    \/ Do
    \/ applyRequestDelay
    \/ resetRequest
    \/ beginSend
    \/ endSend
    \/ applyRetryDelay
    \/ sleepElapsed
    \/ sleepInterrupted
    \/ cancelContext
    \/ retryTimeout

Spec == Init /\ [][Next]_vars

\* the calls whose termination is examined: every policy of retries, delays
\* and timeouts, on requests without a body and without size ceilings
InitLive ==
    /\ Init
    /\ client.RequestSize = 0
    /\ client.ResponseSize = 0
    /\ request \in {Nil, Request(Nil, "nil"), Request(Nil, "caller")}

\* the steps of the goroutine running Do, the returns of the delay provider
\* and of the transport among them
Run ==
    \/ Do
    \/ applyRequestDelay
    \/ resetRequest
    \/ beginSend
    \/ endSend
    \/ applyRetryDelay
    \/ sleepElapsed
    \/ sleepInterrupted

\* the Do call on a goroutine that is scheduled, with a delay provider and a
\* transport that return: a step of Run that stays possible is taken
SpecLive == InitLive /\ [][Next]_vars /\ WF_vars(Run)

\* the Do call with runtime faults
NextPanic == Next \/ panic

SpecPanic == Init /\ [][NextPanic]_vars

----------------------------------------------------------------------------
(* prepareResponseBody on its own: every status, retryable set, body and    *)
(* ceiling of the bounded domain                                            *)

ValidateCodes == {StatusOK, StatusBadRequest - 1, StatusBadRequest, StatusServiceUnavailable}

InitValidate ==
    /\ client \in [RetryStatus : SUBSET ValidateCodes,
                   RetryCount : {0}, RetryDelay : {0}, RetryTimeout : {0},
                   RequestDelay : {0}, RequestTimeout : {0}, RequestSize : {0},
                   ResponseSize : 0..(MaxSize + 1),
                   RetryMultiplier : {20}, RetryJitter : {1}, RequestJitter : {1}]
    /\ arg \in {Response(s, Stream(L, f), NoHeader) :
                    s \in ValidateCodes, L \in 0..(MaxBody + 1), f \in BOOLEAN}
    /\ request = Nil
    /\ ctxErr = "none"
    /\ pc = "validate"
    /\ attempt = 0
    /\ response = Nil
    /\ err = NoErr
    /\ sends = 0
    /\ sleeps = 0
    /\ lastSend = NoSend
    /\ endedAt = ""
    /\ deadAtSend = FALSE
    /\ allRetry = TRUE
    /\ fault = Nil
    /\ call = Nil
    /\ first = Nil
    /\ log = <<>>
    /\ events = <<>>
    /\ result = Nil
    /\ other = Nil

prepareResponse ==
    /\ pc = "validate"
    /\ LET out == prepareResponseBody(arg, client.ResponseSize, client.RetryStatus)
       IN  /\ response' = out.response
           /\ err' = out.err
    /\ pc' = "validated"
    /\ UNCHANGED <<client, request, ctxErr, attempt, sends, sleeps, lastSend,
                   endedAt, deadAtSend, allRetry, arg, result, events, log, other, first, fault, call>>

NextValidate == prepareResponse

SpecValidate == InitValidate /\ [][NextValidate]_vars

----------------------------------------------------------------------------
(* Two Do calls in a row on one request object *)

\* the caller hands the request object of a returned call to Do once more:
\* the call's locals start afresh and so does the deadline of RetryTimeout,
\* the request and its own context are as the first call left them
DoAgain ==
    /\ pc = "done"
    /\ first = Nil
    /\ first' = [err |-> err, sends |-> sends]
    /\ pc' = "idle"
    /\ attempt' = 0
    /\ response' = Nil
    /\ err' = NoErr
    /\ sends' = 0
    /\ sleeps' = 0
    /\ lastSend' = NoSend
    /\ endedAt' = IF ctxErr = "none" THEN "" ELSE "idle"
    /\ deadAtSend' = FALSE
    /\ allRetry' = TRUE
    /\ call' = Nil
    /\ ctxErr' = IF ctxErr = "DeadlineExceeded" THEN "none" ELSE ctxErr
    /\ events' = <<>>
    /\ result' = Nil
    /\ UNCHANGED <<client, request, arg, log, other, fault>>

\* policies without delays, attempt timeout and response ceiling, and a
\* context that is live at the first call
InitTwice ==
    /\ Init
    /\ client.RetryDelay = 0
    /\ client.RequestDelay = 0
    /\ client.RequestTimeout = 0
    /\ client.ResponseSize = 0
    /\ ctxErr = "none"

NextTwice == Next \/ DoAgain

SpecTwice == InitTwice /\ [][NextTwice]_vars

----------------------------------------------------------------------------
(* Two concurrent Do calls on one client *)

\* everything a Do call owns: its request, its context, its locals and its
\* history.  The client is not among them: both calls use the one client.
Suspended ==
    [request |-> request, ctxErr |-> ctxErr, pc |-> pc, attempt |-> attempt,
     response |-> response, err |-> err, sends |-> sends, sleeps |-> sleeps,
     lastSend |-> lastSend, endedAt |-> endedAt, deadAtSend |-> deadAtSend,
     allRetry |-> allRetry, arg |-> arg, fault |-> fault, call |-> call,
     first |-> first, log |-> log,
     events |-> events, result |-> result]

\* the arguments of a Do call as they were when it was made
Called(cl, req) == [client |-> cl, request |-> req]

\* a call that has not begun
Pending(cl, req) ==
    [request |-> req, ctxErr |-> "none", pc |-> "idle", attempt |-> 0,
     response |-> Nil, err |-> NoErr, sends |-> 0, sleeps |-> 0,
     lastSend |-> NoSend, endedAt |-> "", deadAtSend |-> FALSE,
     allRetry |-> TRUE, arg |-> Called(cl, req), fault |-> Nil, call |-> Nil,
     first |-> Nil, log |-> <<>>,
     events |-> <<>>, result |-> Nil]

\* policies that retry at most once after a delay, a request without body
\* and one with a body, contexts that stay live
InitConcurrent ==
    /\ client \in {cl \in Clients :
                      /\ cl.RetryStatus = {StatusServiceUnavailable}
                      /\ cl.RetryCount \in {0, 1}
                      /\ cl.RetryDelay = 1
                      /\ cl.RequestDelay = 0
                      /\ cl.RetryTimeout = 0
                      /\ cl.RequestTimeout = 0
                      /\ cl.RequestSize = 0
                      /\ cl.ResponseSize = MaxSize}
    /\ request = Request(Nil, "nil")
    /\ other = Pending(client, Request(Stream(MaxBody, FALSE), "nil"))
    /\ arg = Called(client, request)
    /\ ctxErr = "none"
    /\ pc = "idle"
    /\ attempt = 0
    /\ response = Nil
    /\ err = NoErr
    /\ sends = 0
    /\ sleeps = 0
    /\ lastSend = NoSend
    /\ endedAt = ""
    /\ deadAtSend = FALSE
    /\ allRetry = TRUE
    /\ fault = Nil
    /\ call = Nil
    /\ first = Nil
    /\ log = <<>>
    /\ events = <<>>
    /\ result = Nil

\* mutant of yield: the response is kept where both calls reach it
yieldSharingResponse ==
    /\ other # Nil
    /\ other' = Suspended
    /\ request' = other.request
    /\ ctxErr' = other.ctxErr
    /\ pc' = other.pc
    /\ attempt' = other.attempt
    /\ response' = response
    /\ err' = other.err
    /\ sends' = other.sends
    /\ sleeps' = other.sleeps
    /\ lastSend' = other.lastSend
    /\ endedAt' = other.endedAt
    /\ deadAtSend' = other.deadAtSend
    /\ allRetry' = other.allRetry
    /\ arg' = other.arg
    /\ fault' = other.fault
    /\ call' = other.call
    /\ first' = other.first
    /\ log' = other.log
    /\ events' = other.events
    /\ result' = other.result
    /\ UNCHANGED client

\* the scheduler takes the running call off and runs the other one: each
\* call finds what it owns as it left it
yield ==
    /\ other # Nil
    /\ other' = Suspended
    /\ request' = other.request
    /\ ctxErr' = other.ctxErr
    /\ pc' = other.pc
    /\ attempt' = other.attempt
    /\ response' = other.response
    /\ err' = other.err
    /\ sends' = other.sends
    /\ sleeps' = other.sleeps
    /\ lastSend' = other.lastSend
    /\ endedAt' = other.endedAt
    /\ deadAtSend' = other.deadAtSend
    /\ allRetry' = other.allRetry
    /\ arg' = other.arg
    /\ fault' = other.fault
    /\ call' = other.call
    /\ first' = other.first
    /\ log' = other.log
    /\ events' = other.events
    /\ result' = other.result
    /\ UNCHANGED client

\* client.Client.Do returns to the running call; what it returned is logged
endSendLogged ==
    /\ pc = "sending"
    /\ \E t \in TransportOutcomes(request, ctxErr, deadAtSend, client) :
          /\ transportReturns(t)
          /\ log' = Append(log, t.ret)

NextConcurrent ==
    \/ Do
    \/ applyRequestDelay
    \/ resetRequest
    \/ beginSend
    \/ endSendLogged
    \/ applyRetryDelay
    \/ sleepElapsed
    \/ yield

SpecConcurrent == InitConcurrent /\ [][NextConcurrent]_vars

\* Do running alone, as a function of the client, the request and what the
\* transport returns attempt by attempt, with live context and working
\* regeneration: the response, the error and the number of sends
RECURSIVE doAlone(_, _, _, _, _, _)
doAlone(cl, a, resp, e, n, returns) ==
    IF a > cl.RetryCount \/ returns = <<>>
    THEN [response |-> resp, err |-> e, sends |-> n]
    ELSE LET res == sendRequest(Head(returns), cl)
         IN  IF res.err = NoErr \/ ~IsRetryable(res.err)
             THEN [response |-> res.response, err |-> res.err, sends |-> n + 1]
             ELSE doAlone(cl, a + 1, res.response, res.err, n + 1, Tail(returns))

DoAlone(cl, req, returns) ==
    LET p == prepareRequestBody(req, cl.RequestSize)
    IN  IF p.err # NoErr
        THEN [response |-> Nil, err |-> p.err, sends |-> 0]
        ELSE doAlone(cl, 0, Nil, NoErr, 0, returns)

----------------------------------------------------------------------------
(* applyRetryDelay's choice of the delay as a function of its inputs *)

MaxDelay == 2

\* the Retry-After header values: no header map, no header, an empty one,
\* every decimal integer strconv.ParseInt accepts at the integer width, an
\* RFC1123 date in the past, now, the future or further than a Duration
\* reaches, anything else
Headers ==
    {NilHeader, NoHeader, EmptyHeader, Unparseable}
    \cup {Seconds(n) : n \in MinDuration..MaxDuration}
    \cup {HTTPDate(n) : n \in ((0 - 1)..MaxDelay) \cup {MaxDuration + 1}}

InitDelay ==
    /\ client \in [RetryStatus : {{}},
                   RetryCount : {MaxRetryCount}, RetryDelay : 0..MaxDelay,
                   RetryTimeout : {0}, RequestDelay : {0}, RequestTimeout : {0},
                   RequestSize : {0}, ResponseSize : {0},
                   RetryMultiplier : {0 - 10, 0, 5, 10, 20}, RetryJitter : {0, 5},
                   RequestJitter : {0}]
    /\ arg \in [response : {Nil} \cup {Response(StatusServiceUnavailable, Buffer(<<>>), h) :
                                         h \in Headers},
                attempt : 0..(MaxRetryCount - 1)]
    /\ request = Request(Nil, "nil")
    /\ ctxErr = "none"
    /\ pc = "delay"
    /\ attempt = arg.attempt
    /\ response = arg.response
    /\ err = NoErr
    /\ sends = 0
    /\ sleeps = 0
    /\ lastSend = NoSend
    /\ endedAt = ""
    /\ deadAtSend = FALSE
    /\ allRetry = TRUE
    /\ fault = Nil
    /\ call = Nil
    /\ first = Nil
    /\ log = <<>>
    /\ events = <<>>
    /\ result = Nil
    /\ other = Nil

\* applyRetryDelay up to the call of the delay provider
retrySleep ==
    /\ pc = "delay"
    /\ call' = retrySleepCall(response, attempt, client)
    /\ sleeps' = sleeps + 1
    /\ pc' = "delayed"
    /\ UNCHANGED <<client, request, ctxErr, attempt, response, err, sends, lastSend,
                   endedAt, deadAtSend, allRetry, arg, result, events, log, other, first, fault>>

\* parseRetryDelay called on the response, as TestClient_ParseRetryDelay does
parseRetryAfter ==
    /\ pc = "delay"
    /\ result' = [delay |-> parseRetryDelay(response)]
    /\ pc' = "parsed"
    /\ UNCHANGED <<client, request, ctxErr, attempt, response, err, sends, sleeps,
                   lastSend, endedAt, deadAtSend, allRetry, arg, events, log, other,
                   first, fault, call>>

NextDelay ==
    \/ retrySleep
    \/ parseRetryAfter

SpecDelay == InitDelay /\ [][NextDelay]_vars

----------------------------------------------------------------------------
(* prepareRequestBody and the installed GetBody as functions of their inputs *)

PrepareRequests ==
    {Nil, Request(Nil, "nil")}
    \cup {Request(Stream(L, f), g) :
            L \in 0..(MaxBody + 1), f \in BOOLEAN, g \in {"nil", "caller"}}

InitPrepare ==
    /\ client \in [RetryStatus : {{}},
                   RetryCount : {0}, RetryDelay : {0}, RetryTimeout : {0},
                   RequestDelay : {0}, RequestTimeout : {0},
                   RequestSize : 0..(MaxSize + 1), ResponseSize : {0},
                   RetryMultiplier : {20}, RetryJitter : {1}, RequestJitter : {1}]
    /\ arg \in PrepareRequests
    /\ request = arg
    /\ ctxErr = "none"
    /\ pc = "prepare"
    /\ attempt = 0
    /\ response = Nil
    /\ err = NoErr
    /\ sends = 0
    /\ sleeps = 0
    /\ lastSend = NoSend
    /\ endedAt = ""
    /\ deadAtSend = FALSE
    /\ allRetry = TRUE
    /\ fault = Nil
    /\ call = Nil
    /\ first = Nil
    /\ log = <<>>
    /\ events = <<>>
    /\ result = Nil
    /\ other = Nil

prepareRequest ==
    /\ pc = "prepare"
    /\ LET p == prepareRequestBody(request, client.RequestSize)
       IN  /\ request' = p.request
           /\ err' = p.err
    /\ pc' = "prepared"
    /\ UNCHANGED <<client, ctxErr, attempt, response, sends, sleeps, lastSend,
                   endedAt, deadAtSend, allRetry, arg, result, events, log, other, first, fault, call>>

\* request.GetBody() is invoked and its reader installed, as resetRequestBody
\* does, after a preparation that installed GetBody
regenerateBody ==
    /\ pc \in {"prepared", "fresh", "read"}
    /\ request # Nil
    /\ request.GetBody = "buffer"
    /\ request' = resetRequestBody(request, TRUE).request
    /\ pc' = "fresh"
    /\ UNCHANGED <<client, ctxErr, attempt, response, err, sends, sleeps, lastSend,
                   endedAt, deadAtSend, allRetry, arg, result, events, log, other, first, fault, call>>

\* a consumer reads from the current body reader
readBody ==
    /\ pc \in {"prepared", "fresh", "read"}
    /\ request # Nil
    /\ request.Body # Nil
    /\ request' \in Consumed(request)
    /\ pc' = "read"
    /\ UNCHANGED <<client, ctxErr, attempt, response, err, sends, sleeps, lastSend,
                   endedAt, deadAtSend, allRetry, arg, result, events, log, other, first, fault, call>>

NextPrepare ==
    \/ prepareRequest
    \/ regenerateBody
    \/ readBody

SpecPrepare == InitPrepare /\ [][NextPrepare]_vars

----------------------------------------------------------------------------
(* Properties *)

\* Do returned because request-body preparation failed
PrepareFailed ==
    err.msg \in {"invalid request", "unable to read request body",
                 "unable to discard request body", "request size exceeded"}

\* Do returned because body regeneration failed
ResetFailed == err.msg = "unable to reset request body"

\* C1: a Do call performs at most RetryCount + 1 transport sends, whatever
\* the transport and the delay provider do.
C1_SendsBounded == sends <= client.RetryCount + 1

C1_Witness ==
    /\ pc = "done"
    /\ client.RetryCount = MaxRetryCount
    /\ sends = client.RetryCount + 1

\* C2: a step classified FatalFailure (ErrNonRetryable) ends the call in that
\* very step, and once the error is fatal no send and no sleep is begun.
C2_FatalReturnsAtOnce ==
    [][/\ err'.kind = ErrNonRetryable => pc' = "done"
       /\ err.kind = ErrNonRetryable => (sends' = sends /\ sleeps' = sleeps)]_vars

C2_Witness ==
    /\ pc = "done"
    /\ err.kind = ErrNonRetryable
    /\ err.msg = "invalid status code"
    /\ attempt < client.RetryCount

\* C3: when every send delivers a readable response whose status is in the
\* retryable set (below 400 or not), the context never ends and body
\* regeneration succeeds, Do sends exactly RetryCount + 1 times and returns
\* the last response, non-nil, with a RetryableFailure "invalid status code"
\* carrying that status.
C3_RetryableStatusExhausts ==
    (pc = "done" /\ sends > 0 /\ allRetry /\ ctxErr = "none" /\ ~ResetFailed)
        => /\ sends = client.RetryCount + 1
           /\ response # Nil
           /\ response.StatusCode \in client.RetryStatus
           /\ err = Error(ErrRetryable, "invalid status code", "none", response.StatusCode)

C3_Witness ==
    /\ pc = "done"
    /\ allRetry
    /\ ctxErr = "none"
    /\ sends = MaxRetryCount + 1
    /\ response # Nil
    /\ response.StatusCode = StatusOK
    /\ err.kind = ErrRetryable

\* C4 (as claimed): with a context already cancelled when Do is called, a
\* valid request and a non-negative retry count, Do returns a FatalFailure
\* wrapping the cancellation, a nil response, and has made no transport send,
\* also when RequestDelay is zero.
C4_CancelledBeforeCall ==
    (pc = "done" /\ endedAt = "idle" /\ client.RetryCount >= 0 /\ ~PrepareFailed)
        => /\ sends = 0
           /\ response = Nil
           /\ err = SleepError("Canceled")

\* C5: when the total retry timeout expires while Do is blocked in the
\* backoff sleep after a retryable failure, the sleep does not complete: Do
\* returns a FatalFailure wrapping the deadline-exceeded cause and no send
\* follows the failed one.
C5_TimeoutInBackoff ==
    (endedAt = "retry_sleep" /\ ctxErr = "DeadlineExceeded")
        => /\ pc \in {"retry_sleep", "done"}
           /\ sends = attempt + 1
           /\ pc = "done" => err = SleepError("DeadlineExceeded")

C5_Witness ==
    /\ endedAt = "retry_sleep"
    /\ ctxErr = "DeadlineExceeded"
    /\ pc = "done"
    /\ err.kind = ErrNonRetryable
    /\ lastSend.why \in {"response", "error"}

\* C6 (as claimed): a call whose bounded context (caller context or total
\* retry timeout) ended before it returned never returns Success: the expiry
\* is detected and the call ends with an error.
C6_NoSuccessAfterContextEnd ==
    (pc = "done" /\ ctxErr # "none" /\ sends > 0) => err # NoErr

\* C7 (as claimed): a transport error is fatal only when the outer bounded
\* context ended; with the outer context live, an error of the transport
\* (the per-attempt timeout included) is classified RetryableFailure.
C7_FatalOnlyForOuterContext ==
    [][(pc = "sending" /\ pc' # "sending" /\ ctxErr = "none"
            /\ lastSend'.why \in {"attempt", "error"})
          => err'.kind = ErrRetryable]_vars

\* C7 (amended): a transport error that wraps a cancellation or a
\* deadline-exceeded cause, from the outer context or from the per-attempt
\* timeout, is classified FatalFailure and ends the call; every other
\* transport error and every nil or bodyless response is classified
\* RetryableFailure, and with attempts remaining Do goes on to the backoff
\* sleep instead of returning.
C7_FatalForAnyContextError ==
    [][(pc = "sending" /\ pc' # "sending")
          => /\ lastSend'.why \in {"outer", "attempt"}
                  => (err'.kind = ErrNonRetryable /\ pc' = "done")
             /\ lastSend'.why \in {"error", "nil", "nobody"}
                  => /\ err'.kind = ErrRetryable
                     /\ attempt < client.RetryCount => pc' = "retry_delay"
                     /\ attempt >= client.RetryCount => pc' = "done"]_vars

C7_Witness ==
    /\ lastSend.why = "error"
    /\ pc = "retry_delay"
    /\ ctxErr = "none"
    /\ err.kind = ErrRetryable

\* C8: with RequestTimeout > 0, a send that ends because the per-attempt
\* deadline expired returns a nil response and an error wrapping
\* ErrNonRetryable and the deadline-exceeded cause, and Do returns it without
\* another attempt.
C8_AttemptTimeoutIsFatal ==
    lastSend.why = "attempt"
        => /\ client.RequestTimeout > 0
           /\ pc = "done"
           /\ response = Nil
           /\ err = Error(ErrNonRetryable, "", "DeadlineExceeded", 0)

C8_Witness ==
    /\ lastSend.why = "attempt"
    /\ ctxErr = "none"
    /\ attempt < client.RetryCount
    /\ pc = "done"

\* the classification of an error value
Classification(e) ==
    IF e = NoErr THEN "Success"
    ELSE IF e.kind = ErrRetryable THEN "RetryableFailure" ELSE "FatalFailure"

\* the order of the rules as the claim gives it
C9_Reference(status, retryable, L, N) ==
    IF status \in retryable THEN "RetryableFailure"
    ELSE IF status >= 400 THEN "FatalFailure"
    ELSE IF N # 0 /\ L > N THEN "FatalFailure"
    ELSE "Success"

\* C9: for a response whose body is read without error the validator decides
\* in this order: status in the retryable set is RetryableFailure, else
\* status >= 400 is FatalFailure, else a body longer than a non-zero ceiling
\* is FatalFailure, else Success.
C9_ClassificationOrder ==
    (pc = "validated" /\ ~arg.Body.fails)
        => Classification(err)
             = C9_Reference(arg.StatusCode, client.RetryStatus,
                            Len(arg.Body.data), client.ResponseSize)

C9_Witness ==
    /\ pc = "validated"
    /\ ~arg.Body.fails
    /\ arg.StatusCode \in client.RetryStatus
    /\ arg.StatusCode >= StatusBadRequest
    /\ client.ResponseSize > 0
    /\ Len(arg.Body.data) > client.ResponseSize
    /\ err.kind = ErrRetryable

\* C10 (as claimed): a response whose body exceeds a non-zero ResponseSize is
\* never retried, whatever its status and the retryable set: Do returns a
\* FatalFailure right after it.
C10_OversizeNeverRetried ==
    (lastSend.why = "response" /\ client.ResponseSize > 0
        /\ lastSend.size > client.ResponseSize)
        => (pc = "done" /\ err.kind = ErrNonRetryable)

\* the sentinels an error wraps (errors.Is over its chain): its own kind and,
\* when the wrapped cause is itself one of the two sentinels, that one too
Sentinels == {ErrRetryable, ErrNonRetryable}

Wraps(e) == {e.kind, e.cause} \cap Sentinels

\* C11: every non-nil error Do returns wraps exactly one of ErrRetryable and
\* ErrNonRetryable, on every path: preparation, request delay, regeneration,
\* send, validation, backoff and a recovered panic
C11_ExactlyOneKind ==
    (pc = "done" /\ err # NoErr) => Cardinality(Wraps(err)) = 1

\* a call has returned the error of an interrupted sleep
C11_Witness ==
    /\ pc = "done"
    /\ endedAt = "retry_sleep"
    /\ err = SleepError(ctxErr)
    /\ Wraps(err) = {ErrNonRetryable}

\* C17: a panic raised anywhere inside Do does not reach the caller: Do
\* returns normally with a fatal error whose message carries the fault value
C17_PanicIsFatal ==
    fault # Nil =>
        /\ pc = "done"
        /\ err = Error(ErrNonRetryable, fault.value, "none", 0)

\* a panic was recovered after a request had been sent
C17_Witness ==
    /\ fault # Nil
    /\ pc = "done"
    /\ sends > 0
    /\ err.kind = ErrNonRetryable
    /\ err.msg = fault.value

\* C12: a response Do returns, with or without an error, has its body
\* replaced by an in-memory reader: never a nil body, never the original
\* stream of the transport
C12_ReturnedBodyReplaced ==
    (pc = "done" /\ response # Nil) =>
        /\ response.Body # Nil
        /\ response.Body.kind = "buffer"

\* C13: once prepareRequestBody captured the body, every attempt of the call
\* sends a fresh reader over the same captured bytes, however much of the
\* previous reader the transport consumed; the original stream is not read
\* again (the request holds an in-memory reader)
C13_EveryAttemptSendsCapturedBody ==
    (pc = "sending" /\ request.GetBody = "buffer") =>
        /\ request.Body = Buffer(request.buffer)
        /\ request.buffer = Content(MaxBody)

\* a second attempt is being sent with the whole captured body
C13_Witness ==
    /\ pc = "sending"
    /\ sends >= 2
    /\ request.GetBody = "buffer"
    /\ request.Body.kind = "buffer"
    /\ request.Body.data = Content(MaxBody)

\* C14: for a readable body of length L without GetBody and a request ceiling
\* N, prepareRequestBody fails exactly when N > 0 and L > N, with a fatal
\* error reporting L; in both outcomes the content length and every
\* regenerated body are the first min(L, N) bytes (all L bytes when N = 0)
C14_RequestCeiling ==
    (/\ pc # "prepare"
     /\ arg # Nil
     /\ arg.Body # Nil
     /\ arg.GetBody = "nil"
     /\ ~arg.Body.fails) =>
        LET L == Len(arg.Body.data)
            N == client.RequestSize
            K == IF N = 0 THEN L ELSE IF L <= N THEN L ELSE N
        IN  /\ err = IF N > 0 /\ L > N
                     THEN Error(ErrNonRetryable, "request size exceeded", "none", L)
                     ELSE NoErr
            /\ request.ContentLength = K
            /\ request.GetBody = "buffer"
            /\ request.buffer = [i \in 1..K |-> arg.Body.data[i]]
            /\ pc \in {"prepared", "fresh"} => request.Body = Buffer(request.buffer)

\* a body longer than the ceiling was rejected and regenerated truncated
C14_Witness ==
    /\ pc = "fresh"
    /\ arg # Nil
    /\ arg.Body # Nil
    /\ Len(arg.Body.data) = MaxBody + 1
    /\ client.RequestSize = MaxSize
    /\ err.msg = "request size exceeded"
    /\ err.n = MaxBody + 1
    /\ Len(request.Body.data) = MaxSize

\* C15: for a readable response with a success status outside the retryable
\* set, of length L above a non-zero ceiling N, prepareResponseBody returns a
\* fatal error reporting L, the replaced body yields the first N bytes and
\* the content length is N; sendRequest hands that response on, non-nil
C15_OversizedResponse ==
    (/\ pc = "validated"
     /\ ~arg.Body.fails
     /\ arg.StatusCode < StatusBadRequest
     /\ arg.StatusCode \notin client.RetryStatus
     /\ client.ResponseSize > 0
     /\ Len(arg.Body.data) > client.ResponseSize) =>
        LET L == Len(arg.Body.data)
            N == client.ResponseSize
        IN  /\ err = Error(ErrNonRetryable, "response size exceeded", "none", L)
            /\ response # Nil
            /\ response.Body = Buffer([i \in 1..N |-> arg.Body.data[i]])
            /\ response.ContentLength = N
            /\ sendRequest(Returned(arg, "none"), client) = [response |-> response, err |-> err]

\* the longest response was rejected above the ceiling and truncated
C15_Witness ==
    /\ pc = "validated"
    /\ arg.StatusCode = StatusOK
    /\ client.RetryStatus = {StatusServiceUnavailable}
    /\ client.ResponseSize = MaxSize
    /\ Len(arg.Body.data) = MaxBody + 1
    /\ err.kind = ErrNonRetryable
    /\ err.n = MaxBody + 1
    /\ response.ContentLength = MaxSize

\* C16: after a retryable failure with attempts remaining, a Retry-After
\* header that parses to a positive duration d (a count of seconds or a date
\* within the range of a Duration) makes the sleep exactly d with zero jitter
\* and no exponential backoff, whatever the base delay, multiplier and
\* jitter; an absent, unparseable or non-positive header makes the sleep the
\* exponential backoff
C16_RetryAfterOverridesBackoff ==
    pc = "delayed" =>
        LET h == IF response = Nil THEN NoHeader ELSE response.RetryAfter
            d == IF h.form = "seconds" THEN h.value * Second ELSE h.value
            directive == h.form \in {"seconds", "date"}
            positive == directive /\ d > 0 /\ d <= MaxDuration
            nonpositive == ~directive \/ (d <= 0 /\ d >= MinDuration)
        IN  /\ positive =>
                call = [fn |-> "RandomJitterWithContext", duration |-> d, jitter |-> 0]
            /\ nonpositive =>
                /\ call.fn = "ExponentialBackoffWithContext"
                /\ call.duration = client.RetryDelay
                /\ call.jitter = client.RetryJitter
                /\ call.attempt = attempt

\* a header of MaxDelay seconds set the sleep against a different base delay
C16_Witness ==
    /\ pc = "delayed"
    /\ response # Nil
    /\ response.RetryAfter = Seconds(MaxDelay)
    /\ client.RetryDelay = 1
    /\ client.RetryJitter > 0
    /\ call.fn = "RandomJitterWithContext"
    /\ call.duration = MaxDelay * Second

\* C19 as stated: Do called with a nil request, or with a request the
\* transport cannot send (one without URL), returns a fatal error and a nil
\* response (here for a live context and a loop that runs)
C19_UnsendableIsFatal ==
    (/\ pc = "done"
     /\ ctxErr = "none"
     /\ client.RetryCount >= 0
     /\ (request = Nil \/ request.URL = "nil")) =>
        /\ err.kind = ErrNonRetryable
        /\ response = Nil

\* C19, amended: a nil request is rejected with a fatal error and a nil
\* response before any sleep or send; a request without URL is sent, every
\* send fails with a transport error that is retryable, the response is nil
\* throughout, and at exhaustion Do returns that retryable error; a fatal
\* error for such a request is the error of a sleep
C19_NilFatalNoURLRetryable ==
    /\ (pc = "done" /\ request = Nil) =>
          /\ err = Error(ErrNonRetryable, "invalid request", "none", 0)
          /\ response = Nil
          /\ sends = 0
          /\ sleeps = 0
    /\ (request # Nil /\ request.URL = "nil") =>
          /\ response = Nil
          /\ sends > 0 /\ pc # "sending" => lastSend.why = "error"
          /\ (pc = "done" /\ client.RetryCount >= 0) =>
                /\ err # NoErr
                /\ err.kind = ErrNonRetryable => err = SleepError(ctxErr)
                /\ err.kind = ErrRetryable =>
                      /\ err = Error(ErrRetryable, "unable to send request", "net", 0)
                      /\ sends = client.RetryCount + 1

\* a request without URL was sent more than once and returned retryable
C19_Witness ==
    /\ pc = "done"
    /\ request # Nil
    /\ request.URL = "nil"
    /\ sends = client.RetryCount + 1
    /\ sends >= 2
    /\ err.kind = ErrRetryable
    /\ response = Nil

\* C20: nothing of one Do call is retained for a later call on the same
\* request object: a request whose body exceeded the request ceiling in the
\* first call is rejected again with the same error (while its context is
\* live), and its truncated body is never sent
C20_OversizeRejectedAgain ==
    (/\ first # Nil
     /\ first.err.msg = "request size exceeded"
     /\ client.RetryCount >= 0) =>
        /\ sends = 0
        /\ (pc = "done" /\ ctxErr = "none") => err = first.err

\* C18: Do calls running concurrently on one client with distinct requests
\* do not interfere: under every interleaving each call makes the sends and
\* returns the outcome it would alone against the same transport returns,
\* and the client is as it was when the call was made
C18_ConcurrentCallsIndependent ==
    \A c \in {Suspended, other} :
        /\ client = c.arg.client
        /\ c.pc = "done" =>
              /\ Len(c.log) = c.sends
              /\ [response |-> c.response, err |-> c.err, sends |-> c.sends]
                    = DoAlone(c.arg.client, c.arg.request, c.log)

\* both calls have returned, interleaved, after two sends each and with
\* different outcomes
C18_Witness ==
    /\ pc = "done"
    /\ other.pc = "done"
    /\ sends = 2
    /\ other.sends = 2
    /\ err = NoErr
    /\ other.err.kind = ErrRetryable
    /\ response # other.response

\* C21: the events of one Do call follow a fixed order: preparation runs
\* once, first; every send is preceded by exactly one request-delay sleep and
\* then one regeneration; a backoff sleep follows only a send classified
\* retryable with attempts remaining, once per such failure, and nothing
\* follows a success, a fatal failure or the retryable failure of the last
\* allowed attempt
C21_EventOrder ==
    LET n == Len(events)
    IN  /\ pc # "idle" => (n >= 1 /\ events[1] = Event("prepare", 0))
        /\ \A i \in 2..n : events[i].ev # "prepare"
        /\ \A i \in 1..n : events[i].ev = "send" =>
              /\ i >= 4
              /\ events[i - 1] = Event("regenerate", events[i].a)
              /\ events[i - 2] = Event("request_delay", events[i].a)
              /\ events[i - 3].ev \notin {"request_delay", "regenerate"}
              /\ events[i].a = Cardinality({j \in 1..(i - 1) : events[j].ev = "send"})
        /\ \A i \in 1..n : events[i].ev = "retry_delay" =>
              /\ i >= 2
              /\ events[i - 1] = Event(ErrRetryable, events[i].a)
              /\ events[i].a < client.RetryCount
              /\ i < n => events[i + 1].ev = "request_delay"
        /\ \A i \in 1..n : (events[i].ev = ErrRetryable /\ events[i].a < client.RetryCount) =>
              IF i < n THEN events[i + 1].ev = "retry_delay" ELSE pc = "retry_delay"
        /\ \A i \in 1..n :
              (\/ events[i].ev \in {"nil", ErrNonRetryable}
               \/ (events[i].ev = ErrRetryable /\ events[i].a >= client.RetryCount)) =>
                  (i = n /\ pc = "done")

\* a call that used every attempt: preparation, then request delay,
\* regeneration, send and classification per attempt, a backoff between them
C21_Witness ==
    /\ pc = "done"
    /\ sends = MaxRetryCount + 1
    /\ Len(events) = 1 + 4 * (MaxRetryCount + 1) + MaxRetryCount
    /\ events[Len(events)].ev = ErrRetryable

\* C22: Do returns a retryable error only when the attempts are exhausted:
\* RetryCount + 1 sends were made, the last one was classified retryable, and
\* the response and the error returned are those of that last send
C22_RetryableOnlyAtExhaustion ==
    (pc = "done" /\ err.kind = ErrRetryable) =>
        /\ sends = client.RetryCount + 1
        /\ events[Len(events)] = Event(ErrRetryable, client.RetryCount)
        /\ result # Nil
        /\ response = result.response
        /\ err = result.err

\* the attempts were exhausted on a retryable status after the first attempt
\* had failed retryably too
C22_Witness ==
    /\ pc = "done"
    /\ err.kind = ErrRetryable
    /\ sends = MaxRetryCount + 1
    /\ response # Nil
    /\ err.msg = "invalid status code"
    /\ \E i \in 1..Len(events) : events[i] = Event(ErrRetryable, 0)

\* C23: when the request's GetBody returns an error on an attempt, Do makes
\* no send on that attempt or later and returns a fatal error wrapping the
\* regeneration error; on the first attempt the response returned is nil
C23_RegenerationErrorIsFatal ==
    (\/ ResetFailed
     \/ (Len(events) > 0 /\ events[Len(events)].ev = "regenerate" /\ pc # "send")) =>
        /\ pc = "done"
        /\ err = Error(ErrNonRetryable, "unable to reset request body", "EOF", 0)
        /\ events[Len(events)] = Event("regenerate", attempt)
        /\ sends = attempt
        /\ attempt = 0 => response = Nil

\* regeneration failed on the second attempt, after one send
C23_Witness ==
    /\ ResetFailed
    /\ pc = "done"
    /\ attempt = 1
    /\ sends = 1
    /\ response # Nil
    /\ request.GetBody = "caller"

\* C24: prepareRequestBody leaves a request unchanged when it has no body or
\* already has a GetBody: body stream (unread, not closed), content length and
\* GetBody are as the caller passed them and no error is returned, for every
\* RequestSize
C24_PrepareNoOp ==
    (/\ pc = "prepared"
     /\ arg # Nil
     /\ (arg.Body = Nil \/ arg.GetBody # "nil")) =>
        /\ request = arg
        /\ err = NoErr

\* a body longer than the ceiling, which would fail on read, was left alone
\* because the caller supplied GetBody
C24_Witness ==
    /\ pc = "prepared"
    /\ arg # Nil
    /\ arg.Body # Nil
    /\ arg.GetBody = "caller"
    /\ arg.Body.fails
    /\ client.RequestSize = MaxSize
    /\ Len(arg.Body.data) = MaxBody + 1
    /\ request.Body.kind = "stream"
    /\ request.closes = 0

\* C25: whenever prepareRequestBody reads the original body stream it closes
\* it exactly once, whatever the outcome (success, size exceeded, failed
\* io.ReadAll, failed io.Copy)
C25_OriginalBodyClosedOnce ==
    (/\ pc # "prepare"
     /\ arg # Nil
     /\ arg.Body # Nil
     /\ arg.GetBody = "nil") =>
        request.closes = 1

\* C26: parseRetryDelay returns zero when the response or its header map is
\* absent or the header is absent, empty or unparseable; for a header that is
\* a non-negative decimal integer N it returns exactly N seconds, for every N
\* strconv.ParseInt accepts; for an RFC1123 date it returns the time from now
\* until the date
C26_RetryAfterInterpreter ==
    pc = "parsed" =>
        LET h == IF response = Nil THEN NoHeader ELSE response.RetryAfter
        IN  /\ h.form \notin {"seconds", "date"} => result.delay = 0
            /\ (h.form = "seconds" /\ h.value >= 0) => result.delay = h.value * Second
            /\ h.form = "date" => result.delay = h.value

C28_NilErrorMeansSuccess ==
    (pc = "done" /\ err = NoErr) =>
        /\ sends > 0
        /\ events[Len(events)].ev = "nil"
        /\ result # Nil
        /\ response = result.response
        /\ response # Nil

\* C29: every Do call eventually returns, provided every sleep and every
\* transport send returns; the attempt index only increases, by one per
\* iteration, and at most RetryCount + 1 attempts are made
C29_DoTerminates ==
    /\ (pc # "idle") ~> (pc = "done")
    /\ [](/\ sends <= attempt + 1
          /\ (client.RetryCount >= 0 => sends <= client.RetryCount + 1)
          /\ (client.RetryCount < 0 => sends = 0)
          /\ (pc \notin {"idle", "done"} => attempt <= client.RetryCount))
    /\ [][attempt' \in {attempt, attempt + 1}]_vars

\* Do returned after every allowed attempt failed retryably, with blocking
\* sleeps in between
C29_Witness ==
    /\ pc = "done"
    /\ sends = MaxRetryCount + 1
    /\ client.RetryCount = MaxRetryCount
    /\ sleeps = 2 * MaxRetryCount + 1
    /\ client.RetryDelay > 0
    /\ client.RequestDelay > 0
    /\ err.kind = ErrRetryable

====
